---- MODULE Spec2Model ----
(***************************************************************************)
(* Operation planning, disclosure, scoring and warp compositing of the     *)
(* facial-analysis backend (backend/beauty_rules.py,                       *)
(* backend/image_processor.py, backend/main.py).                           *)
(*                                                                         *)
(* Numbers.  The program computes with Python floats.  The model computes  *)
(* with exact rationals <<n, d>> (d > 0, lowest terms), so a decimal       *)
(* literal of the source (0.15, 0.9, ...) stands for that decimal.         *)
(* int(x) is truncation toward zero, x // y is floor division.             *)
(***************************************************************************)
EXTENDS Integers, Sequences, FiniteSets, TLC

VARIABLES
    pc,               \* position of the modelled control flow
    caller,           \* who runs the engine: "analyze" (main.py) or "direct" (a call
                      \* of the public methods with the caller's own arguments)
    measurements,     \* the measurement record (a dict: absent keys are absent)
    emitted,          \* plan_changes: the operations list before the final sort
    operations,       \* the operation list handed from planner to its consumers
    recommendations,  \* result of get_readable_recommendations
    harmony_score,    \* result of calculate_harmony_score
    image,            \* apply_operations: the loaded image (a buffer id), 0 = none
    processed_image,  \* apply_operations: the current buffer id, 0 = none
    heap,             \* buffer id -> pixel content (the warps applied to the upload)
    idx,              \* apply_operations: number of operations already applied
    calls,            \* log of the _apply_single_operation calls of this pass
    saved,            \* what _save_processed_image wrote (<<>> = nothing)
    dims,             \* <<height, width>> of the uploaded image
    uploads,          \* the files of UPLOAD_DIR: file name -> content
    requests          \* the /analyze requests in flight: request id -> its locals

vars == <<pc, caller, measurements, emitted, operations, recommendations, harmony_score,
          image, processed_image, heap, idx, calls, saved, dims, uploads, requests>>

engineVars == <<caller, measurements, emitted, operations, recommendations, harmony_score>>
renderVars == <<image, processed_image, heap, idx, calls, saved, dims>>
serveVars  == <<uploads, requests>>

-----------------------------------------------------------------------------
(* Exact rational arithmetic *)

Abs(x) == IF x < 0 THEN -x ELSE x

RECURSIVE GCD(_, _)
GCD(a, b) == IF b = 0 THEN a ELSE GCD(b, a % b)

Rat(n, d) ==
    LET g == GCD(Abs(n), Abs(d))
        s == IF d < 0 THEN -1 ELSE 1
    IN  <<(s * n) \div g, (s * d) \div g>>

FromInt(i)  == <<i, 1>>
Dec(n)      == Rat(n, 100)              \* the decimal n/100
Dec4(n)     == Rat(n, 100 * 100)        \* the decimal n/10000
RAdd(x, y)  == Rat(x[1] * y[2] + y[1] * x[2], x[2] * y[2])
RSub(x, y)  == Rat(x[1] * y[2] - y[1] * x[2], x[2] * y[2])
RMul(x, y)  == Rat(x[1] * y[1], x[2] * y[2])
RDiv(x, y)  == Rat(x[1] * y[2], x[2] * y[1])
RLt(x, y)   == x[1] * y[2] < y[1] * x[2]
RLe(x, y)   == x[1] * y[2] <= y[1] * x[2]
RGt(x, y)   == RLt(y, x)
RGe(x, y)   == RLe(y, x)
RMin(x, y)  == IF RLt(y, x) THEN y ELSE x      \* Python min: first of equals
RMax(x, y)  == IF RGt(y, x) THEN y ELSE x      \* Python max: first of equals
RAbs(x)     == <<Abs(x[1]), x[2]>>
Zero        == FromInt(0)
One         == FromInt(1)

\* Python int(x): truncation toward zero
Trunc(x) == IF x[1] >= 0 THEN x[1] \div x[2] ELSE -((-x[1]) \div x[2])

\* dict.get(key, default)
Get(d, key, default) == IF key \in DOMAIN d THEN d[key] ELSE default

\* the empty dict
EmptyDict == [k \in {} |-> Zero]

-----------------------------------------------------------------------------
(* BEAUTY_RULES: the rule table of BeautyRulesEngine.__init__ *)

target_symmetry          == Dec(90)
max_symmetry_delta_uncapped == One        \* a cap no shortfall reaches
max_symmetry_delta       == Dec(15)
max_reduction_wide       == Dec(35)        \* a reduction cap beyond the renderer's floor
max_reduction            == Dec(30)
ideal_nose_to_ipd        == Dec(75)
tip_refinement           == Dec(15)
bridge_refinement_doubled == Dec(20)      \* a bridge refinement twice as strong
bridge_refinement        == Dec(10)
max_asymmetry_correction_uncapped == FromInt(5)   \* a cap above the measured values
max_asymmetry_correction == FromInt(2)
ideal_upper              == Dec(33)
ideal_middle             == Dec(33)
ideal_lower              == Dec(34)
tolerance_tight          == Dec(4)         \* a tolerance one point tighter
tolerance                == Dec(5)

-----------------------------------------------------------------------------
(* plan_changes *)

\* a facial-third check that also fires at exactly the tolerance
ThirdOpInclusive(facial_thirds, third_name, ideal) ==
    LET current == Get(facial_thirds, third_name, ideal)
    IN  IF RGe(RAbs(RSub(current, ideal)), tolerance)
        THEN << [region |-> "face", type |-> "adjust_" \o third_name \o "_third",
                 current |-> current, target |-> ideal, priority |-> 5] >>
        ELSE << >>

\* _analyze_facial_thirds: one pass over upper, middle, lower
ThirdOp(facial_thirds, third_name, ideal) ==
    LET current   == Get(facial_thirds, third_name, ideal)
        deviation == RAbs(RSub(current, ideal))
    IN  IF RGt(deviation, tolerance)
        THEN << [region |-> "face", type |-> "adjust_" \o third_name \o "_third",
                 current |-> current, target |-> ideal, priority |-> 5] >>
        ELSE << >>

analyze_facial_thirds(facial_thirds) ==
       ThirdOp(facial_thirds, "upper", ideal_upper)
    \o ThirdOp(facial_thirds, "middle", ideal_middle)
    \o ThirdOp(facial_thirds, "lower", ideal_lower)

\* 1) symmetry correction
SymmetryOps(m) ==
    LET current_symmetry == Get(m, "symmetry_score", One)
    IN  IF RLt(current_symmetry, target_symmetry)
        THEN << [region |-> "face", type |-> "symmetry",
                 amount |-> RMin(RSub(target_symmetry, current_symmetry),
                                 max_symmetry_delta),
                 priority |-> 1] >>
        ELSE << >>

\* the tip refinement joining the width reduction from the bridge threshold on
NeedsTipRefinementAtBridgeThreshold(shrink_factor) == RGt(shrink_factor, Dec(12))

\* if shrink_factor > 0.15
NeedsTipRefinement(shrink_factor) == RGt(shrink_factor, Dec(15))

\* if shrink_factor > 0.12
NeedsBridgeRefinement(shrink_factor) == RGt(shrink_factor, Dec(12))

\* the narrow regime with its boundary 0.85*ideal included
NarrowNoseInclusive(nose_ratio) == RLe(nose_ratio, RMul(ideal_nose_to_ipd, Dec(85)))

\* elif nose_ratio < ideal_nose_ratio * 0.85
NarrowNose(nose_ratio) == RLt(nose_ratio, RMul(ideal_nose_to_ipd, Dec(85)))

\* 2) nose width correction: three regimes
NoseOps(m) ==
    LET nose_ratio    == Get(m, "nose_to_ipd_ratio", One)
        excess        == RSub(RDiv(nose_ratio, ideal_nose_to_ipd), One)
        shrink_factor == RMin(excess, max_reduction)
    IN  IF RGt(nose_ratio, ideal_nose_to_ipd)
        THEN    << [region |-> "nose", type |-> "shrink_width",
                    factor |-> RSub(One, shrink_factor), priority |-> 2] >>
             \o (IF NeedsTipRefinement(shrink_factor)
                 THEN << [region |-> "nose", type |-> "refine_tip",
                          factor |-> RSub(One, tip_refinement), priority |-> 2] >>
                 ELSE << >>)
             \o (IF NeedsBridgeRefinement(shrink_factor)
                 THEN << [region |-> "nose", type |-> "refine_bridge",
                          factor |-> RSub(One, bridge_refinement), priority |-> 2] >>
                 ELSE << >>)
        ELSE IF NarrowNose(nose_ratio)
        THEN << [region |-> "nose", type |-> "refine_tip",
                 factor |-> RSub(One, RMul(tip_refinement, Dec(50))),
                 priority |-> 2],
                [region |-> "nose", type |-> "refine_bridge",
                 factor |-> RSub(One, RMul(bridge_refinement, Dec(50))),
                 priority |-> 2] >>
        ELSE << [region |-> "nose", type |-> "refine_tip",
                 factor |-> RSub(One, RMul(tip_refinement, Dec(70))),
                 priority |-> 2] >>

\* 3) jaw asymmetry correction
JawOps(m) ==
    LET jaw_asymmetry == Get(m, "jaw_asymmetry", Zero)
    IN  IF RGt(jaw_asymmetry, One)
        THEN << [region |-> "jaw", type |-> "balance",
                 mm |-> RMin(jaw_asymmetry, max_asymmetry_correction),
                 priority |-> 3] >>
        ELSE << >>

\* the chin test with the threshold 20 included
ChinProjectionLowInclusive(chin_projection) ==
    RGt(chin_projection, Zero) /\ RLe(chin_projection, FromInt(20))

\* if chin_projection > 0: if chin_projection < 20
ChinProjectionLow(chin_projection) ==
    RGt(chin_projection, Zero) /\ RLt(chin_projection, FromInt(20))

\* 4) chin projection adjustment
ChinOps(m) ==
    LET chin_projection == Get(m, "chin_projection", Zero)
    IN  IF ChinProjectionLow(chin_projection)
        THEN << [region |-> "chin", type |-> "enhance",
                 amount |-> Dec(15), priority |-> 4] >>
        ELSE << >>

\* 5) facial thirds adjustment ("if facial_thirds:" is false for the empty dict)
ThirdsOps(m) ==
    LET facial_thirds == Get(m, "facial_thirds", EmptyDict)
    IN  IF DOMAIN facial_thirds # {}
        THEN analyze_facial_thirds(facial_thirds)
        ELSE << >>

\* the operations list as accumulated, before the sort
EmitOperations(m) ==
    SymmetryOps(m) \o NoseOps(m) \o JawOps(m) \o ChinOps(m) \o ThirdsOps(m)

\* the sort key: x.get("priority", 99)
PriorityKey(op) == Get(op, "priority", 99)

\* a sort that places an element before the elements of equal key (not stable)
RECURSIVE InsertUnstable(_, _)
InsertUnstable(sorted, op) ==
    IF sorted = << >> THEN << op >>
    ELSE IF PriorityKey(op) <= PriorityKey(Head(sorted))
         THEN << op >> \o sorted
         ELSE << Head(sorted) >> \o InsertUnstable(Tail(sorted), op)

\* list.sort(key=...): a stable sort; insertion keeps equal keys in input order
RECURSIVE InsertStable(_, _)
InsertStable(sorted, op) ==
    IF sorted = << >> THEN << op >>
    ELSE IF PriorityKey(op) < PriorityKey(Head(sorted))
         THEN << op >> \o sorted
         ELSE << Head(sorted) >> \o InsertStable(Tail(sorted), op)

RECURSIVE SortUnstable(_)
SortUnstable(ops) ==
    IF ops = << >> THEN << >>
    ELSE InsertUnstable(SortUnstable(SubSeq(ops, 1, Len(ops) - 1)), ops[Len(ops)])

RECURSIVE SortStable(_)
SortStable(ops) ==
    IF ops = << >> THEN << >>
    ELSE InsertStable(SortStable(SubSeq(ops, 1, Len(ops) - 1)), ops[Len(ops)])

SortByPriority(ops) == SortStable(ops)

plan_changes(m) == SortByPriority(EmitOperations(m))

-----------------------------------------------------------------------------
(* get_readable_recommendations *)

\* An output string is modelled by a record: "text" names the template and the
\* other fields hold the values formatted into it.

Floor(x) == x[1] \div x[2]

\* rounding of a format specification (.1f, .1%): nearest, ties to even
RoundHalfEven(x) ==
    LET f == Floor(x)
        r == RSub(x, FromInt(f))
    IN  IF RLt(r, Dec(50)) THEN f
        ELSE IF RGt(r, Dec(50)) THEN f + 1
        ELSE IF f % 2 = 0 THEN f ELSE f + 1

Fmt1f(x)  == RoundHalfEven(RMul(x, FromInt(10)))      \* f"{x:.1f}", in tenths
Fmt1pct(x) == RoundHalfEven(RMul(x, FromInt(1000)))   \* f"{x:.1%}", in tenths of a percent

\* Python's "word in op_type" over the operation types of the model
Contains(op_type, word) ==
    <<op_type, word>> \in
        { <<"adjust_upper_third", "third">>, <<"adjust_upper_third", "upper">>,
          <<"adjust_middle_third", "third">>, <<"adjust_middle_third", "middle">>,
          <<"adjust_lower_third", "third">>, <<"adjust_lower_third", "lower">> }

max_botox_effect_wide == Dec(10)   \* a Botox limit above the planner's tolerance
max_botox_effect == Dec(2)

\* the sentence of one operation outside the nose group (<< >>: no branch matches)
OtherRecommendation(op) ==
    LET region  == Get(op, "region", "")
        op_type == Get(op, "type", "")
    IN  IF region = "face" /\ op_type = "symmetry"
        THEN LET amount == Get(op, "amount", Zero)
             IN  << [text |-> "Facial Symmetry Correction",
                     percentage |-> IF RGt(amount, Zero)
                                    THEN Trunc(RMul(amount, FromInt(100)))
                                    ELSE 0] >>
        ELSE IF region = "nose"
        THEN << >>
        ELSE IF region = "jaw" /\ op_type = "balance"
        THEN << [text |-> "Jawline Contouring",
                 mm |-> Fmt1f(Get(op, "mm", Zero))] >>
        ELSE IF region = "chin" /\ op_type = "enhance"
        THEN << [text |-> "Chin Enhancement",
                 percentage |-> Trunc(RMul(Get(op, "amount", Zero), FromInt(100)))] >>
        ELSE IF region = "face" /\ Contains(op_type, "third")
        THEN LET current    == Get(op, "current", Zero)
                 target     == Get(op, "target", Zero)
                 deviation  == RSub(target, current)
                 change_pct == RMul(RAbs(deviation), FromInt(100))
             IN  IF Contains(op_type, "upper")
                 THEN IF RLe(RAbs(deviation), max_botox_effect)
                      THEN << [text |-> "Upper Third Optimization: Minimal Botox brow lift effect",
                               current |-> Fmt1pct(current), target |-> Fmt1pct(target),
                               change_pct |-> Fmt1f(change_pct)] >>
                      ELSE << [text |-> "Upper Third Optimization: Requires surgical brow lift or forehead reduction",
                               current |-> Fmt1pct(current), target |-> Fmt1pct(target)] >>
                 ELSE IF Contains(op_type, "middle")
                 THEN << [text |-> "Middle Third Enhancement",
                          current |-> Fmt1pct(current), target |-> Fmt1pct(target),
                          change_pct |-> Fmt1f(change_pct)] >>
                 ELSE << [text |-> "Lower Third Optimization",
                          current |-> Fmt1pct(current), target |-> Fmt1pct(target)] >>
        ELSE << >>

\* nose descriptions with the refine_bridge branch left out
NoseDescriptionNoBridge(op) ==
    LET op_type == Get(op, "type", "")
    IN  IF Get(op, "region", "") # "nose" THEN << >>
        ELSE IF op_type = "shrink_width"
        THEN << [text |-> "overall nasal width reduction",
                 reduction |-> Trunc(RMul(RSub(One, Get(op, "factor", One)),
                                          FromInt(100)))] >>
        ELSE IF op_type = "refine_tip"
        THEN << [text |-> "nasal tip refinement and definition"] >>
        ELSE << >>

\* the description a nose operation adds to nose_ops (<< >>: no branch matches)
NoseDescription(op) ==
    LET region  == Get(op, "region", "")
        op_type == Get(op, "type", "")
    IN  IF region = "face" /\ op_type = "symmetry" THEN << >>
        ELSE IF region = "nose"
        THEN IF op_type = "shrink_width"
             THEN << [text |-> "overall nasal width reduction",
                      reduction |-> Trunc(RMul(RSub(One, Get(op, "factor", One)),
                                               FromInt(100)))] >>
             ELSE IF op_type = "refine_tip"
             THEN << [text |-> "nasal tip refinement and definition"] >>
             ELSE IF op_type = "refine_bridge"
             THEN << [text |-> "nasal bridge narrowing"] >>
             ELSE << >>
        ELSE << >>

\* "for op in operations": what the loop appends to recommendations ...
RECURSIVE OtherRecommendations(_)
OtherRecommendations(ops) ==
    IF ops = << >> THEN << >>
    ELSE OtherRecommendation(Head(ops)) \o OtherRecommendations(Tail(ops))

\* ... and to nose_ops
RECURSIVE NoseDescriptions(_)
NoseDescriptions(ops) ==
    IF ops = << >> THEN << >>
    ELSE NoseDescription(Head(ops)) \o NoseDescriptions(Tail(ops))

BalancedFallback ==
    << [text |-> "Your facial features are already well-balanced!"],
       [text |-> "No enhancements recommended - your facial harmony is optimal"] >>

get_readable_recommendations(ops) ==
    LET others   == OtherRecommendations(ops)
        nose_ops == NoseDescriptions(ops)
        merged   == IF nose_ops # << >>
                    THEN << [text |-> "Comprehensive Rhinoplasty",
                             nose_desc |-> nose_ops] >> \o others
                    ELSE others
    IN  IF merged = << >> THEN BalancedFallback ELSE merged

-----------------------------------------------------------------------------
(* calculate_harmony_score *)

operations_score(num_operations) ==
    IF num_operations = 0 THEN One
    ELSE IF num_operations = 1 THEN Dec(85)
    ELSE IF num_operations = 2 THEN Dec(70)
    ELSE RMax(Dec(50), RSub(One, RMul(FromInt(num_operations - 2), Dec(10))))

\* a weighted sum that counts the symmetry shortfall instead of the symmetry score
total_score_shortfall(m, ops) ==
    RAdd(RMul(RSub(One, Get(m, "symmetry_score", Dec(80))), Dec(40)),
         RMul(operations_score(Len(ops)), Dec(15)))

\* sum(score * weight for ...): the weighted sum of the five sub-scores
total_score(m, ops) ==
    LET symmetry_score  == Get(m, "symmetry_score", Dec(80))
        nose_ratio      == Get(m, "nose_to_ipd_ratio", ideal_nose_to_ipd)
        nose_deviation  == RDiv(RAbs(RSub(nose_ratio, ideal_nose_to_ipd)),
                                ideal_nose_to_ipd)
        nose_score      == RMax(Zero, RSub(One, RMul(nose_deviation, FromInt(2))))
        jaw_asymmetry   == Get(m, "jaw_asymmetry", Zero)
        jaw_score       == RMax(Zero, RSub(One, RDiv(jaw_asymmetry, FromInt(10))))
        chin_projection == Get(m, "chin_projection", Zero)
        chin_score      == IF RGt(chin_projection, Zero)
                           THEN RMin(One, RDiv(chin_projection, FromInt(20)))
                           ELSE Dec(70)
    IN  RAdd(RAdd(RAdd(RAdd(RMul(symmetry_score, Dec(40)),
                            RMul(nose_score, Dec(20))),
                       RMul(jaw_score, Dec(15))),
                  RMul(chin_score, Dec(10))),
             RMul(operations_score(Len(ops)), Dec(15)))

\* max(0, min(100, harmony_score))
ClampUnclamped(x) == x
Clamp(x) == IF x > 100 THEN 100 ELSE IF x < 0 THEN 0 ELSE x

\* harmony_score = int(total_score * 100)
ToScale(total) == Trunc(RMul(total, FromInt(100)))

calculate_harmony_score(m, ops) == Clamp(ToScale(total_score(m, ops)))

-----------------------------------------------------------------------------
(* The measurement records the landmark provider may hand over *)

\* an input choice is << >> (key absent) or << value >>
Field(key, choice) == IF choice = << >> THEN EmptyDict ELSE key :> choice[1]

SymmetryInputs == { << >>, <<Dec(70)>>, <<Dec(89)>>, <<Dec(90)>>, <<Dec(95)>> }
NoseInputs     == { << >>, <<Dec(60)>>, <<Dec4(6375)>>, <<Dec(75)>>, <<Dec(84)>>,
                    <<Dec(85)>>, <<Dec(90)>>, <<One>> }
JawInputs      == { << >>, <<Zero>>, <<One>>, <<Dec(150)>>, <<FromInt(3)>> }
ChinInputs     == { << >>, <<FromInt(-5)>>, <<Zero>>, <<FromInt(10)>>, <<FromInt(20)>>,
                    <<FromInt(25)>> }
UpperInputs    == { << >>, <<ideal_upper>>, <<Dec(38)>>, <<Dec(27)>> }
MiddleInputs   == { << >>, <<ideal_middle>>, <<Dec(28)>>, <<Dec(40)>> }
LowerInputs    == { << >>, <<ideal_lower>>, <<Dec(39)>>, <<Dec(28)>> }

ThirdsInputs ==
    { << >> } \cup
    { << Field("upper", u) @@ Field("middle", mi) @@ Field("lower", lo) >> :
        u \in UpperInputs, mi \in MiddleInputs, lo \in LowerInputs }

MeasurementRecords ==
    { Field("symmetry_score", sy) @@ Field("nose_to_ipd_ratio", no)
        @@ Field("jaw_asymmetry", ja) @@ Field("chin_projection", ch)
        @@ Field("facial_thirds", th) :
        sy \in SymmetryInputs, no \in NoseInputs, ja \in JawInputs,
        ch \in ChinInputs, th \in ThirdsInputs }

-----------------------------------------------------------------------------
(* Arguments of direct calls: any operation list, any record *)

MaxOps      == 2     \* longest caller-supplied operation list
MaxCountOps == 8     \* longest operation list handed to the scorer

OperationPool ==
    { [region |-> "face", type |-> "symmetry", amount |-> Dec(15), priority |-> 1],
      [region |-> "nose", type |-> "shrink_width", factor |-> Dec(70), priority |-> 2],
      [region |-> "nose", type |-> "refine_tip", factor |-> Dec(85), priority |-> 2],
      [region |-> "nose", type |-> "refine_bridge", factor |-> Dec(90), priority |-> 2],
      [region |-> "nose", type |-> "reshape", priority |-> 2],
      [region |-> "jaw", type |-> "balance", mm |-> Dec(150), priority |-> 3],
      [region |-> "chin", type |-> "enhance", amount |-> Dec(15), priority |-> 4],
      [region |-> "face", type |-> "adjust_upper_third",
       current |-> Dec(32), target |-> ideal_upper, priority |-> 5],
      [region |-> "face", type |-> "adjust_upper_third",
       current |-> Dec(27), target |-> ideal_upper, priority |-> 5],
      [region |-> "face", type |-> "adjust_middle_third",
       current |-> Dec(40), target |-> ideal_middle, priority |-> 5],
      [region |-> "face", type |-> "adjust_lower_third",
       current |-> Dec(28), target |-> ideal_lower, priority |-> 5],
      [region |-> "lips", type |-> "augment", amount |-> Dec(20), priority |-> 6],
      [region |-> "face", type |-> "lift"],
      [type |-> "symmetry", amount |-> Dec(10)] }

SeqsUpTo(S, n) == UNION { [1..k -> S] : k \in 0..n }

CallerOperationLists == SeqsUpTo(OperationPool, MaxOps)

\* the scorer reads only the length of the list
CountedOperationLists ==
    { [i \in 1..n |-> [region |-> "chin", type |-> "enhance",
                       amount |-> Dec(15), priority |-> 4]] : n \in 0..MaxCountOps }

CallerRecords ==
    { Field("symmetry_score", sy) @@ Field("nose_to_ipd_ratio", no)
        @@ Field("jaw_asymmetry", ja) @@ Field("chin_projection", ch) :
        sy \in { << >>, <<Dec(-50)>>, <<Dec(50)>>, <<One>>, <<FromInt(3)>> },
        no \in { << >>, <<Dec(10)>>, <<Dec(75)>>, <<FromInt(2)>> },
        ja \in { << >>, <<FromInt(5)>>, <<FromInt(12)>>, <<FromInt(-20)>> },
        ch \in { << >>, <<FromInt(-5)>>, <<FromInt(10)>>, <<FromInt(40)>> } }

-----------------------------------------------------------------------------
(* The rules engine as /analyze uses it (main.py, steps 2 and 3) and as a  *)
(* direct caller uses it                                                    *)

RenderIdle ==
    /\ image = 0
    /\ processed_image = 0
    /\ heap = << >>
    /\ idx = 0
    /\ calls = << >>
    /\ saved = << >>
    /\ dims = <<0, 0>>

\* no request is being served
ServeIdle ==
    /\ uploads = << >>
    /\ requests = << >>

\* /analyze: the record comes from the landmark provider, nothing is planned yet
InitAnalyze ==
    /\ pc = "start"
    /\ caller = "analyze"
    /\ measurements \in MeasurementRecords
    /\ operations = << >>

\* a direct call of get_readable_recommendations / calculate_harmony_score:
\* the caller supplies the operation list (and the record the scorer reads)
InitDirect ==
    /\ pc = "planned"
    /\ caller = "direct"
    /\ \/ /\ measurements = EmptyDict
          /\ operations \in CallerOperationLists
       \/ /\ measurements \in CallerRecords
          /\ operations \in CountedOperationLists

Init ==
    /\ InitAnalyze \/ InitDirect
    /\ emitted = << >>
    /\ recommendations = << >>
    /\ harmony_score = -1
    /\ RenderIdle
    /\ ServeIdle

\* operations = beauty_engine.plan_changes(measurements)
PlanChanges ==
    /\ pc = "start"
    /\ caller = "analyze"
    /\ emitted' = EmitOperations(measurements)
    /\ operations' = plan_changes(measurements)
    /\ pc' = "planned"
    /\ UNCHANGED <<caller, measurements, recommendations, harmony_score, renderVars, serveVars>>

\* recommendations = beauty_engine.get_readable_recommendations(operations)
GetReadableRecommendations ==
    /\ pc = "planned"
    /\ recommendations' = get_readable_recommendations(operations)
    /\ pc' = "recommended"
    /\ UNCHANGED <<caller, measurements, emitted, operations, harmony_score, renderVars, serveVars>>

\* facial_harmony_score = beauty_engine.calculate_harmony_score(measurements, operations)
CalculateHarmonyScore ==
    /\ pc = "recommended"
    /\ harmony_score' = calculate_harmony_score(measurements, operations)
    /\ pc' = "scored"
    /\ UNCHANGED <<caller, measurements, emitted, operations, recommendations, renderVars, serveVars>>

Next == PlanChanges \/ GetReadableRecommendations \/ CalculateHarmonyScore

Spec == Init /\ [][Next]_vars

-----------------------------------------------------------------------------
(* The warp renderers of ImageProcessor *)

\* A buffer's pixel content is modelled by the sequence of warps applied to the
\* uploaded picture (<< >> is the upload itself).  A renderer result is either
\* the input object itself (same = TRUE: "return image") or a new array.

Unchanged == [same |-> TRUE]
Warped(pixels, warp) == [same |-> FALSE, pixels |-> Append(pixels, warp)]

Scaled(n, x) == Trunc(RMul(FromInt(n), x))        \* int(n * x)
Pt(x, y)     == <<FromInt(x), FromInt(y)>>
Min(a, b)    == IF b < a THEN b ELSE a
Max(a, b)    == IF b > a THEN b ELSE a

\* the window test of _shrink_nose_width, without its lower bound
NoseFactorOutOfRangeNoFloor(factor) == RGe(factor, One)

\* if factor >= 1.0 or factor < 0.70
NoseFactorOutOfRange(factor) == RGe(factor, One) \/ RLt(factor, Dec(70))

shrink_nose_width(pixels, height, width, operation) ==
    LET factor        == Get(operation, "factor", Dec(90))
        nose_center_x == width \div 2
        nose_center_y == Scaled(height, Dec(35))
        nose_width    == Scaled(width, Dec(16))
        nose_height   == Scaled(height, Dec(20))
        bridge_width  == nose_width
        tip_width     == Scaled(nose_width, Dec(80))
        src_points    ==
            << Pt(nose_center_x - bridge_width \div 2, nose_center_y - nose_height \div 2),
               Pt(nose_center_x + bridge_width \div 2, nose_center_y - nose_height \div 2),
               Pt(nose_center_x + tip_width \div 2, nose_center_y + nose_height \div 2),
               Pt(nose_center_x - tip_width \div 2, nose_center_y + nose_height \div 2) >>
        reduction_multiplier == RSub(One, RMul(RSub(One, factor), Dec(120)))
        new_bridge_width == Trunc(RMul(FromInt(bridge_width), reduction_multiplier))
        new_tip_width    == Trunc(RMul(FromInt(tip_width), reduction_multiplier))
        width_diff       == bridge_width - new_bridge_width
        dst_points    ==
            << Pt(nose_center_x - new_bridge_width \div 2, nose_center_y - nose_height \div 2),
               Pt(nose_center_x + new_bridge_width \div 2, nose_center_y - nose_height \div 2),
               Pt(nose_center_x + new_tip_width \div 2, nose_center_y + nose_height \div 2),
               Pt(nose_center_x - new_tip_width \div 2, nose_center_y + nose_height \div 2) >>
    IN  IF NoseFactorOutOfRange(factor) THEN Unchanged
        ELSE IF width_diff < 2 THEN Unchanged
        ELSE Warped(pixels, [renderer |-> "_shrink_nose_width",
                             src |-> src_points, dst |-> dst_points])

\* if factor >= 1.0 or factor < 0.80
TipFactorOutOfRange(factor) == RGe(factor, One) \/ RLt(factor, Dec(80))

refine_nose_tip(pixels, height, width, operation) ==
    LET factor        == Get(operation, "factor", Dec(85))
        nose_center_x == width \div 2
        nose_tip_y    == Scaled(height, Dec(45))
        tip_width     == Scaled(width, Dec(8))
        tip_height    == Scaled(height, Dec(10))
        Quad(w)       ==
            << Pt(nose_center_x - w \div 2, nose_tip_y - tip_height \div 2),
               Pt(nose_center_x + w \div 2, nose_tip_y - tip_height \div 2),
               Pt(nose_center_x + w \div 2, nose_tip_y + tip_height \div 2),
               Pt(nose_center_x - w \div 2, nose_tip_y + tip_height \div 2) >>
        new_tip_width == Trunc(RMul(FromInt(tip_width), factor))
    IN  IF TipFactorOutOfRange(factor) THEN Unchanged
        ELSE IF new_tip_width >= tip_width THEN Unchanged
        ELSE Warped(pixels, [renderer |-> "_refine_nose_tip",
                             src |-> Quad(tip_width), dst |-> Quad(new_tip_width)])

\* if factor >= 1.0 or factor < 0.85
BridgeFactorOutOfRange(factor) == RGe(factor, One) \/ RLt(factor, Dec(85))

refine_nose_bridge(pixels, height, width, operation) ==
    LET factor        == Get(operation, "factor", Dec(90))
        nose_center_x == width \div 2
        bridge_y      == Scaled(height, Dec(28))
        bridge_width  == Scaled(width, Dec(10))
        bridge_height == Scaled(height, Dec(12))
        Quad(w)       ==
            << Pt(nose_center_x - w \div 2, bridge_y - bridge_height \div 2),
               Pt(nose_center_x + w \div 2, bridge_y - bridge_height \div 2),
               Pt(nose_center_x + w \div 2, bridge_y + bridge_height \div 2),
               Pt(nose_center_x - w \div 2, bridge_y + bridge_height \div 2) >>
        new_bridge_width == Trunc(RMul(FromInt(bridge_width), factor))
    IN  IF BridgeFactorOutOfRange(factor) THEN Unchanged
        ELSE IF new_bridge_width >= bridge_width THEN Unchanged
        ELSE Warped(pixels, [renderer |-> "_refine_nose_bridge",
                             src |-> Quad(bridge_width), dst |-> Quad(new_bridge_width)])

\* if mm_correction == 0 or mm_correction > 2.0
JawCorrectionOutOfRange(mm_correction) ==
    mm_correction = Zero \/ RGt(mm_correction, FromInt(2))

balance_jaw(pixels, height, width, operation) ==
    LET mm_correction       == Get(operation, "mm", Zero)
        face_width_estimate == RMul(FromInt(width), Dec(60))
        pixel_correction    == Trunc(RDiv(RMul(mm_correction, face_width_estimate),
                                          FromInt(100)))
        jaw_y          == Scaled(height, Dec(70))
        jaw_height     == Scaled(height, Dec(20))
        jaw_center_x   == width \div 2
        jaw_side_width == Scaled(width, Dec(20))
        jaw_left       == IF pixel_correction > 0 THEN jaw_center_x
                          ELSE Max(0, jaw_center_x - jaw_side_width)
        jaw_right      == IF pixel_correction > 0
                          THEN Min(jaw_center_x + jaw_side_width, width)
                          ELSE jaw_center_x
        src_points     == << Pt(jaw_left, jaw_y), Pt(jaw_right, jaw_y),
                             Pt(jaw_right, jaw_y + jaw_height),
                             Pt(jaw_left, jaw_y + jaw_height) >>
        shift          == RMul(FromInt(Abs(pixel_correction)), Dec(70))
        in             == IF pixel_correction > 0 THEN shift ELSE RSub(Zero, shift)
        dst_points     ==
            << <<RAdd(FromInt(jaw_left), in), FromInt(jaw_y)>>,
               <<RSub(FromInt(jaw_right), in), FromInt(jaw_y)>>,
               <<RSub(FromInt(jaw_right), in), FromInt(jaw_y + jaw_height)>>,
               <<RAdd(FromInt(jaw_left), in), FromInt(jaw_y + jaw_height)>> >>
    IN  IF JawCorrectionOutOfRange(mm_correction) THEN Unchanged
        ELSE IF Abs(pixel_correction) < 2 THEN Unchanged
        ELSE Warped(pixels, [renderer |-> "_balance_jaw",
                             src |-> src_points, dst |-> dst_points])

\* if amount == 0 or amount > 0.15
SymmetryAmountOutOfRange(amount) == amount = Zero \/ RGt(amount, Dec(15))

improve_symmetry(pixels, height, width, operation) ==
    LET amount            == Get(operation, "amount", Zero)
        face_center_x     == width \div 2
        face_region_width == Scaled(width, Dec(60))
        quarter           == RMul(FromInt(face_region_width), Dec(25))
        inner_left        == Trunc(RSub(FromInt(face_center_x), quarter))
        inner_right       == Trunc(RAdd(FromInt(face_center_x), quarter))
        blend_strength    == RMin(RMul(amount, Dec(40)), Dec(20))
    IN  IF SymmetryAmountOutOfRange(amount) THEN Unchanged
        ELSE IF inner_left > 0 /\ inner_right < width
        THEN Warped(pixels, [renderer |-> "_improve_symmetry",
                             inner_left |-> inner_left, inner_right |-> inner_right,
                             blend_strength |-> blend_strength])
        ELSE Unchanged

\* if amount == 0 or amount > 0.2
ChinAmountOutOfRange(amount) == amount = Zero \/ RGt(amount, Dec(20))

enhance_chin(pixels, height, width, operation) ==
    LET amount        == Get(operation, "amount", Zero)
        chin_start_y  == Scaled(height, Dec(75))
        chin_height   == Scaled(height, Dec(15))
        chin_center_x == width \div 2
        chin_width    == Scaled(width, Dec(40))
        stretch_y     == Trunc(RMul(RMul(FromInt(chin_height), amount), Dec(50)))
        Quad(bottom)  ==
            << Pt(chin_center_x - chin_width \div 2, chin_start_y),
               Pt(chin_center_x + chin_width \div 2, chin_start_y),
               Pt(chin_center_x + chin_width \div 2, bottom),
               Pt(chin_center_x - chin_width \div 2, bottom) >>
    IN  IF ChinAmountOutOfRange(amount) THEN Unchanged
        ELSE IF stretch_y < 1 THEN Unchanged
        ELSE Warped(pixels, [renderer |-> "_enhance_chin",
                             src |-> Quad(chin_start_y + chin_height),
                             dst |-> Quad(chin_start_y + chin_height + stretch_y)])

adjust_upper_third(pixels, height, width, deviation) ==
    LET lift_amount == Trunc(RMul(RMul(RAbs(deviation), FromInt(height)), Dec(30)))
    IN  IF RGt(RAbs(deviation), max_botox_effect) THEN Unchanged
        ELSE IF RLt(RAbs(deviation), Dec(1)) THEN Unchanged
        ELSE IF lift_amount < 1 THEN Unchanged
        ELSE Warped(pixels, [renderer |-> "_adjust_upper_third",
                             lift_amount |-> lift_amount])

adjust_middle_third(pixels, height, width, deviation) ==
    LET middle_start == Scaled(height, Dec(33))
        middle_end   == Scaled(height, Dec(66))
        center_x     == width \div 2
        cheek_width  == Scaled(width, Dec(35))
        projection   == Trunc(RMul(RMul(RAbs(deviation), FromInt(width)), Dec(15)))
        src_points   == << Pt(center_x - cheek_width \div 2, middle_start),
                           Pt(center_x + cheek_width \div 2, middle_start),
                           Pt(center_x + cheek_width \div 2, middle_end),
                           Pt(center_x - cheek_width \div 2, middle_end) >>
        dst_points   ==
            << Pt(center_x - cheek_width \div 2 - projection \div 3, middle_start),
               Pt(center_x + cheek_width \div 2 + projection \div 3, middle_start),
               Pt(center_x + cheek_width \div 2 + projection \div 4, middle_end),
               Pt(center_x - cheek_width \div 2 - projection \div 4, middle_end) >>
    IN  IF RLt(RAbs(deviation), Dec(2)) THEN Unchanged
        ELSE IF RGt(deviation, Zero)
        THEN Warped(pixels, [renderer |-> "_adjust_middle_third",
                             src |-> src_points, dst |-> dst_points])
        ELSE Unchanged

adjust_lower_third(pixels, height, width, deviation) ==
    LET lower_start    == Scaled(height, Dec(66))
        lower_end      == height
        lower_height   == lower_end - lower_start
        stretch_factor == RAdd(One, RMul(deviation, Dec(60)))
        new_height     == Trunc(RMul(FromInt(lower_height), stretch_factor))
        new_end        == Min(lower_start + new_height, height)
        Quad(bottom)   == << Pt(0, lower_start), Pt(width, lower_start),
                             Pt(width, bottom), Pt(0, bottom) >>
    IN  IF RLt(RAbs(deviation), Dec(2)) THEN Unchanged
        ELSE IF Abs(new_height - lower_height) < 3 THEN Unchanged
        ELSE Warped(pixels, [renderer |-> "_adjust_lower_third",
                             src |-> Quad(lower_end), dst |-> Quad(new_end)])

adjust_facial_third(pixels, height, width, operation) ==
    LET op_type   == Get(operation, "type", "")
        deviation == RSub(Get(operation, "target", Zero), Get(operation, "current", Zero))
    IN  IF RLt(RAbs(deviation), Dec(1)) THEN Unchanged
        ELSE IF Contains(op_type, "upper")
        THEN adjust_upper_third(pixels, height, width, deviation)
        ELSE IF Contains(op_type, "middle")
        THEN adjust_middle_third(pixels, height, width, deviation)
        ELSE IF Contains(op_type, "lower")
        THEN adjust_lower_third(pixels, height, width, deviation)
        ELSE Unchanged

\* an else branch that hands back a blank buffer
unknown_operation_blank(pixels, operation) ==
    Warped(<< >>, [renderer |-> "blank"])

\* result = image; else: print("[WARNING] Unknown operation ...")
unknown_operation(pixels, operation) == Unchanged

\* _apply_single_operation: the dispatch on (region, type)
apply_single_operation(pixels, height, width, operation) ==
    LET region  == Get(operation, "region", "")
        op_type == Get(operation, "type", "")
    IN  IF region = "nose" /\ op_type = "shrink_width"
        THEN shrink_nose_width(pixels, height, width, operation)
        ELSE IF region = "nose" /\ op_type = "refine_tip"
        THEN refine_nose_tip(pixels, height, width, operation)
        ELSE IF region = "nose" /\ op_type = "refine_bridge"
        THEN refine_nose_bridge(pixels, height, width, operation)
        ELSE IF region = "jaw" /\ op_type = "balance"
        THEN balance_jaw(pixels, height, width, operation)
        ELSE IF region = "face" /\ op_type = "symmetry"
        THEN improve_symmetry(pixels, height, width, operation)
        ELSE IF region = "chin" /\ op_type = "enhance"
        THEN enhance_chin(pixels, height, width, operation)
        ELSE IF region = "face" /\ Contains(op_type, "third")
        THEN adjust_facial_third(pixels, height, width, operation)
        ELSE unknown_operation(pixels, operation)

-----------------------------------------------------------------------------
(* apply_operations: the sequential pass over the operation list *)

MaxRenderOps == 2     \* longest operation list of a render pass

\* <<height, width>> of the uploads
ImageSizes == { <<100, 100>>, <<60, 50>>, <<480, 640>> }

RenderPool ==
    { [region |-> "nose", type |-> "shrink_width", factor |-> Dec(70), priority |-> 2],
      [region |-> "nose", type |-> "shrink_width", factor |-> Dec(69), priority |-> 2],
      [region |-> "nose", type |-> "shrink_width", factor |-> Dec(95), priority |-> 2],
      [region |-> "nose", type |-> "shrink_width", factor |-> One, priority |-> 2],
      [region |-> "nose", type |-> "refine_tip", factor |-> Dec(85), priority |-> 2],
      [region |-> "nose", type |-> "refine_tip", factor |-> Dec(79), priority |-> 2],
      [region |-> "nose", type |-> "refine_tip", factor |-> One, priority |-> 2],
      [region |-> "nose", type |-> "refine_bridge", factor |-> Dec(90), priority |-> 2],
      [region |-> "nose", type |-> "refine_bridge", factor |-> Dec(84), priority |-> 2],
      [region |-> "nose", type |-> "refine_bridge", factor |-> One, priority |-> 2],
      [region |-> "chin", type |-> "enhance", amount |-> Dec(15), priority |-> 4],
      [region |-> "chin", type |-> "enhance", amount |-> Dec(25), priority |-> 4],
      [region |-> "chin", type |-> "enhance", amount |-> Dec(-10), priority |-> 4],
      [region |-> "chin", type |-> "enhance", priority |-> 4],
      [region |-> "jaw", type |-> "balance", mm |-> Dec(150), priority |-> 3],
      [region |-> "jaw", type |-> "balance", mm |-> Dec(250), priority |-> 3],
      [region |-> "jaw", type |-> "balance", mm |-> Zero, priority |-> 3],
      [region |-> "jaw", type |-> "balance", mm |-> Dec(-150), priority |-> 3],
      [region |-> "jaw", type |-> "balance", mm |-> Dec(-250), priority |-> 3],
      [region |-> "face", type |-> "symmetry", amount |-> Dec(15), priority |-> 1],
      [region |-> "face", type |-> "symmetry", amount |-> Dec(20), priority |-> 1],
      [region |-> "face", type |-> "symmetry", amount |-> Zero, priority |-> 1],
      [region |-> "face", type |-> "symmetry", amount |-> Dec(-10), priority |-> 1],
      [region |-> "face", type |-> "adjust_upper_third",
       current |-> Dec(32), target |-> ideal_upper, priority |-> 5],
      [region |-> "face", type |-> "adjust_middle_third",
       current |-> Dec(27), target |-> ideal_middle, priority |-> 5],
      [region |-> "face", type |-> "adjust_lower_third",
       current |-> Dec(44), target |-> ideal_lower, priority |-> 5],
      [region |-> "face", type |-> "adjust_lower_third",
       current |-> Dec(28), target |-> ideal_lower, priority |-> 5],
      [region |-> "lips", type |-> "augment", amount |-> Dec(20), priority |-> 6],
      [region |-> "nose", type |-> "reshape", factor |-> Dec(85), priority |-> 2] }

InitRender ==
    /\ pc = "apply"
    /\ caller = "render"
    /\ operations \in SeqsUpTo(RenderPool, MaxRenderOps)
    /\ dims \in ImageSizes
    /\ measurements = EmptyDict
    /\ emitted = << >>
    /\ recommendations = << >>
    /\ harmony_score = -1
    /\ image = 0
    /\ processed_image = 0
    /\ heap = << >>
    /\ idx = 0
    /\ calls = << >>
    /\ saved = << >>
    /\ uploads = << >>
    /\ requests = << >>

engineIdle == <<caller, measurements, emitted, operations, recommendations,
                harmony_score, dims>>

\* if not operations: return None
ReturnNoOperations ==
    /\ pc = "apply"
    /\ operations = << >>
    /\ pc' = "returned"
    /\ UNCHANGED <<engineIdle, serveVars, image, processed_image, heap, idx, calls, saved>>

\* image = cv2.imread(image_path) gives None: return None
ReturnLoadFailed ==
    /\ pc = "apply"
    /\ operations # << >>
    /\ pc' = "returned"
    /\ UNCHANGED <<engineIdle, serveVars, image, processed_image, heap, idx, calls, saved>>

\* image = cv2.imread(image_path); processed_image = image.copy()
LoadImage ==
    /\ pc = "apply"
    /\ operations # << >>
    /\ heap' = << << >>, << >> >>
    /\ image' = 1
    /\ processed_image' = 2
    /\ idx' = 0
    /\ pc' = "loop"
    /\ UNCHANGED <<engineIdle, serveVars, calls, saved>>

\* the buffer a loop iteration hands to _apply_single_operation, were it the
\* loaded image every time
FoldInputLoaded(loaded, current) == loaded

\* processed_image = self._apply_single_operation(processed_image, operation)
FoldInput(loaded, current) == current

\* a renderer that writes its result into the array it was handed as well
StoreResultInPlace(buffers, input, result) ==
    IF result.same THEN buffers
    ELSE Append([buffers EXCEPT ![input] = result.pixels], result.pixels)

\* the arrays after a renderer returned: "return image" allocates nothing,
\* "return result.astype(np.uint8)" is a new array and the input keeps its pixels
StoreResult(buffers, input, result) ==
    IF result.same THEN buffers ELSE Append(buffers, result.pixels)

\* one iteration of "for i, operation in enumerate(operations)"
ApplySingleOperation ==
    /\ pc = "loop"
    /\ idx < Len(operations)
    /\ LET operation == operations[idx + 1]
           input     == FoldInput(image, processed_image)
           result    == apply_single_operation(heap[input], dims[1], dims[2], operation)
           output    == IF result.same THEN input ELSE Len(heap) + 1
       IN  /\ heap' = StoreResult(heap, input, result)
           /\ processed_image' = output
           /\ calls' = Append(calls, [operation |-> operation, input |-> input,
                                      input_pixels |-> heap[input], result |-> output])
    /\ idx' = idx + 1
    /\ UNCHANGED <<pc, engineIdle, serveVars, image, saved>>

\* output_path = self._save_processed_image(processed_image, image_path)
SaveProcessedImage ==
    /\ pc = "loop"
    /\ idx = Len(operations)
    /\ saved' = << [buffer |-> processed_image, pixels |-> heap[processed_image]] >>
    /\ pc' = "returned"
    /\ UNCHANGED <<engineIdle, serveVars, image, processed_image, heap, idx, calls>>

NextRender ==
    \/ ReturnNoOperations
    \/ ReturnLoadFailed
    \/ LoadImage
    \/ ApplySingleOperation
    \/ SaveProcessedImage

SpecRender == InitRender /\ [][NextRender]_vars

-----------------------------------------------------------------------------
(* The /analyze handler of main.py, several requests in flight *)

MaxRequests == 2     \* requests served side by side

Requests == 1..MaxRequests

\* file names of the uploads, as <<stem, suffix>>
FileNames    == { <<"face", ".jpg">>, <<"face", ".png">>, <<"selfie", ".jpg">> }
ContentTypes == { "image/jpeg", "text/plain" }

None == "None"

FullName(f)   == f[1] \o f[2]
TempName(f)   == "temp_" \o FullName(f)              \* UPLOAD_DIR / f"temp_{file.filename}"
BeforeName(f) == "before_" \o FullName(f)            \* UPLOAD_DIR / f"before_{file.filename}"
AfterName(f)  == "after_temp_" \o f[1] \o ".jpg"     \* f"after_{Path(original_path).stem}.jpg"

\* file.content_type.startswith("image/")
IsImageType(content_type) == content_type \in { "image/jpeg", "image/png" }

\* the records the analyzer returns with landmarks
ServedRecords ==
    { [symmetry_score |-> Dec(95), nose_to_ipd_ratio |-> Dec(75),
       jaw_asymmetry |-> Zero, chin_projection |-> Zero,
       facial_thirds |-> [upper |-> Dec(33), middle |-> Dec(33), lower |-> Dec(34)]],
      [symmetry_score |-> Dec(70), nose_to_ipd_ratio |-> One,
       jaw_asymmetry |-> Dec(150), chin_projection |-> FromInt(10),
       facial_thirds |-> [upper |-> Dec(27), middle |-> Dec(40), lower |-> Dec(28)]] }

\* the locals of a request that has just entered the handler
NewRequest(f, content_type) ==
    [pc |-> "validate", file |-> f, content_type |-> content_type,
     landmarks |-> "unset", analyzed |-> 0, planned |-> FALSE,
     operations |-> << >>, after_path |-> None,
     status |-> 0, detail |-> None, before_url |-> None, after_url |-> None]

Remove(files, name) == [n \in DOMAIN files \ {name} |-> files[n]]
Write(files, name, content) == (name :> content) @@ files

HTTPException(status_code, detail) ==
    [kind |-> "HTTPException", status_code |-> status_code, detail |-> detail]
Error(kind) == [kind |-> kind, status_code |-> 0, detail |-> ""]

\* str(e): "<status_code>: <detail>" for an HTTPException
Str(e) == IF e.kind = "HTTPException"
          THEN (IF e.status_code = 400 THEN "400: " ELSE "500: ") \o e.detail
          ELSE e.kind

InitServe ==
    /\ pc = "serve"
    /\ caller = "serve"
    /\ measurements = EmptyDict
    /\ emitted = << >>
    /\ operations = << >>
    /\ recommendations = << >>
    /\ harmony_score = -1
    /\ RenderIdle
    /\ uploads = << >>
    /\ requests \in [Requests -> { NewRequest(f, ct) : f \in FileNames, ct \in ContentTypes }]

\* except Exception as e: unlink the temp file when file_path is bound and
\* exists, then raise HTTPException(500, f"Analysis failed: {str(e)}").  The
\* clause catches every Exception, the HTTPException raised in the try block
\* included.
Except(r, locals, file_path_bound, e) ==
    /\ uploads' = IF file_path_bound /\ TempName(locals.file) \in DOMAIN uploads
                  THEN Remove(uploads, TempName(locals.file))
                  ELSE uploads
    /\ requests' = [requests EXCEPT ![r] =
                       [locals EXCEPT !.pc = "responded", !.status = 500,
                                      !.detail = "Analysis failed: " \o Str(e)]]

\* if not file.content_type.startswith("image/"): raise HTTPException(400, ...)
ValidateFileType(r) ==
    /\ requests[r].pc = "validate"
    /\ IF IsImageType(requests[r].content_type)
       THEN /\ requests' = [requests EXCEPT ![r].pc = "save"]
            /\ UNCHANGED uploads
       ELSE Except(r, requests[r], FALSE, HTTPException(400, "File must be an image"))
    /\ UNCHANGED <<pc, engineVars, renderVars>>

\* with open(file_path, "wb") as buffer: shutil.copyfileobj(file.file, buffer)
SaveUpload(r) ==
    /\ requests[r].pc = "save"
    /\ uploads' = Write(uploads, TempName(requests[r].file), [upload |-> r])
    /\ requests' = [requests EXCEPT ![r].pc = "analyze"]
    /\ UNCHANGED <<pc, engineVars, renderVars>>

\* landmarks, measurements = face_analyzer.analyze_face(str(file_path));
\* if landmarks is None: raise HTTPException(400, "No face detected in image")
AnalyzeFace(r) ==
    /\ requests[r].pc = "analyze"
    /\ LET temp     == TempName(requests[r].file)
           readable == temp \in DOMAIN uploads
       IN  \E outcome \in { "face", "no_face", "error" } :
               IF outcome = "error"
               THEN Except(r, requests[r], TRUE, Error("RuntimeError"))
               ELSE IF ~readable \/ outcome = "no_face"
               THEN Except(r, [requests[r] EXCEPT
                                  !.landmarks = None,
                                  !.analyzed = IF readable THEN uploads[temp].upload ELSE 0],
                           TRUE, HTTPException(400, "No face detected in image"))
               ELSE /\ requests' = [requests EXCEPT ![r].pc = "plan",
                                                    ![r].landmarks = "found",
                                                    ![r].analyzed = uploads[temp].upload]
                    /\ UNCHANGED uploads
    /\ UNCHANGED <<pc, engineVars, renderVars>>

\* operations = beauty_engine.plan_changes(measurements), recommendations, score
PlanServed(r) ==
    /\ requests[r].pc = "plan"
    /\ \E m \in ServedRecords :
           requests' = [requests EXCEPT ![r].pc = "render", ![r].planned = TRUE,
                                        ![r].operations = plan_changes(m)]
    /\ UNCHANGED <<pc, engineVars, renderVars, uploads>>

\* if operations: after_path = image_processor.apply_operations(str(file_path), operations)
\* (None when cv2.imread finds no file; else after_<stem>.jpg is written)
RenderServed(r) ==
    /\ requests[r].pc = "render"
    /\ LET temp  == TempName(requests[r].file)
           after == AfterName(requests[r].file)
       IN  IF requests[r].operations # << >> /\ temp \in DOMAIN uploads
           THEN /\ uploads' = Write(uploads, after, [upload |-> uploads[temp].upload])
                /\ requests' = [requests EXCEPT ![r].pc = "finish",
                                                ![r].after_path = after]
           ELSE /\ requests' = [requests EXCEPT ![r].pc = "finish"]
                /\ UNCHANGED uploads
    /\ UNCHANGED <<pc, engineVars, renderVars>>

\* if after_path and after_path != str(file_path): os.rename(temp, before);
\* return AnalyzeResponse(...)
Respond(r) ==
    /\ requests[r].pc = "finish"
    /\ LET temp   == TempName(requests[r].file)
           before == BeforeName(requests[r].file)
       IN  IF requests[r].after_path = None
           THEN /\ requests' = [requests EXCEPT ![r].pc = "responded", ![r].status = 200,
                                                ![r].before_url = temp]
                /\ UNCHANGED uploads
           ELSE IF temp \notin DOMAIN uploads
           THEN Except(r, requests[r], TRUE, Error("FileNotFoundError"))
           ELSE /\ uploads' = Write(Remove(uploads, temp), before, uploads[temp])
                /\ requests' = [requests EXCEPT ![r].pc = "responded", ![r].status = 200,
                                                ![r].before_url = before,
                                                ![r].after_url = requests[r].after_path]
    /\ UNCHANGED <<pc, engineVars, renderVars>>

NextServe ==
    \/ \E r \in Requests : ValidateFileType(r)
    \/ \E r \in Requests : SaveUpload(r)
    \/ \E r \in Requests : AnalyzeFace(r)
    \/ \E r \in Requests : PlanServed(r)
    \/ \E r \in Requests : RenderServed(r)
    \/ \E r \in Requests : Respond(r)

SpecServe == InitServe /\ [][NextServe]_vars

-----------------------------------------------------------------------------
(* Properties of the rules engine *)

Planned == caller = "analyze" /\ pc # "start"
Scored  == pc = "scored"
Recommended == pc \in {"recommended", "scored"}

\* the order in which plan_changes emits operations of equal priority
EmissionRank(op) ==
    CASE op.type \in {"shrink_width", "adjust_upper_third"}  -> 1
      [] op.type \in {"refine_tip", "adjust_middle_third"}   -> 2
      [] op.type \in {"refine_bridge", "adjust_lower_third"} -> 3
      [] OTHER -> 0

NoseOf(ops)    == SelectSeq(ops, LAMBDA op : Get(op, "region", "") = "nose")
NonNoseOf(ops) == SelectSeq(ops, LAMBDA op : Get(op, "region", "") # "nose")

NearIdealTip == [region |-> "nose", type |-> "refine_tip",
                 factor |-> Rat(895, 1000), priority |-> 2]

\* C1: the planned list is sorted by non-decreasing priority, and operations of
\* equal priority stand in emission order (shrink_width, refine_tip,
\* refine_bridge; upper, middle, lower).
C1_SortedStable ==
    Planned =>
        \A i, j \in 1..Len(operations) :
            i < j =>
                /\ operations[i].priority <= operations[j].priority
                /\ operations[i].priority = operations[j].priority
                      => EmissionRank(operations[i]) < EmissionRank(operations[j])

\* a plan with three nose operations and three facial-third operations
C1_Witness ==
    /\ Planned
    /\ Len(SelectSeq(operations, LAMBDA op : op.priority = 2)) = 3
    /\ Len(SelectSeq(operations, LAMBDA op : op.priority = 5)) = 3
    /\ Len(operations) = Len(emitted)

\* C3: a missing field is treated as ideal: without nose_to_ipd_ratio the nose
\* gets the near-ideal regime only, and the record {symmetry_score: 0.70}
\* yields exactly face/symmetry 0.15 followed by the near-ideal refine_tip.
C3_MissingFieldIsNeutral ==
    Planned =>
        /\ "nose_to_ipd_ratio" \notin DOMAIN measurements
              => NoseOf(operations) = << NearIdealTip >>
        /\ measurements = ("symmetry_score" :> Dec(70))
              => operations =
                    << [region |-> "face", type |-> "symmetry",
                        amount |-> Dec(15), priority |-> 1],
                       NearIdealTip >>

\* every value of the record is at or near ideal, the nose ratio exactly ideal
NearIdealRecord(m) ==
    /\ RGe(Get(m, "symmetry_score", One), target_symmetry)
    /\ "nose_to_ipd_ratio" \in DOMAIN m
    /\ m["nose_to_ipd_ratio"] = ideal_nose_to_ipd
    /\ RLe(Get(m, "jaw_asymmetry", Zero), One)
    /\ LET chin == Get(m, "chin_projection", Zero)
       IN  chin = Zero \/ RGe(chin, FromInt(20))
    /\ LET t == Get(m, "facial_thirds", EmptyDict)
       IN  /\ RLe(RAbs(RSub(Get(t, "upper", ideal_upper), ideal_upper)), tolerance)
           /\ RLe(RAbs(RSub(Get(t, "middle", ideal_middle), ideal_middle)), tolerance)
           /\ RLe(RAbs(RSub(Get(t, "lower", ideal_lower), ideal_lower)), tolerance)

\* C4 as stated: a record at or near ideal yields the empty list.
C4_NearIdealIsEmpty ==
    (Planned /\ NearIdealRecord(measurements)) => operations = << >>

\* C4 amended: a record at or near ideal yields exactly one operation, the
\* near-ideal nose/refine_tip of factor 1 - 0.15*0.7 at priority 2.
C4_NearIdealIsTipOnly ==
    (Planned /\ NearIdealRecord(measurements)) => operations = << NearIdealTip >>

\* a full record with values on the boundaries of the near-ideal ranges
C4_Witness ==
    /\ Planned
    /\ NearIdealRecord(measurements)
    /\ DOMAIN measurements = {"symmetry_score", "nose_to_ipd_ratio", "jaw_asymmetry",
                              "chin_projection", "facial_thirds"}
    /\ measurements["symmetry_score"] = target_symmetry
    /\ measurements["jaw_asymmetry"] = One
    /\ measurements["chin_projection"] = FromInt(20)
    /\ DOMAIN measurements["facial_thirds"] = {"upper", "middle", "lower"}
    /\ measurements["facial_thirds"]["upper"] = Dec(38)
    /\ measurements["facial_thirds"]["lower"] = Dec(39)
    /\ operations = << NearIdealTip >>

\* C5: calculate_harmony_score returns an integer in [0,100] for every record
\* (out-of-range and missing fields included) and every operation list.
C5_ScoreInRange ==
    Scored => harmony_score \in 0..100

\* a record whose weighted sum exceeds 1: the clamp decides the result
C5_Witness ==
    /\ Scored
    /\ caller = "direct"
    /\ ToScale(total_score(measurements, operations)) > 100
    /\ harmony_score = 100

SymmetryValues ==
    { Dec(-50), Dec(50), Dec(70), Dec(89), Dec(90), Dec(95), One, FromInt(3) }

WithSymmetry(m, s) == [m EXCEPT !["symmetry_score"] = s]

\* the fields of the record lie in the ranges of the data model
ValidRecord(m) ==
    /\ "symmetry_score" \in DOMAIN m
    /\ RGe(m["symmetry_score"], Zero) /\ RLe(m["symmetry_score"], One)
    /\ RGt(Get(m, "nose_to_ipd_ratio", ideal_nose_to_ipd), Zero)
    /\ RGe(Get(m, "jaw_asymmetry", Zero), Zero)
    /\ RGe(Get(m, "chin_projection", Zero), Zero)

\* C6 as stated: of two records that differ only in symmetry_score, scored with
\* the same operation list, the one of lower symmetry_score scores strictly
\* lower (stated here for the records and symmetry scores valid by the data model).
C6_StrictlyDecreasing ==
    (Scored /\ ValidRecord(measurements)) =>
        \A s \in SymmetryValues :
            (RGe(s, Zero) /\ RLt(s, measurements["symmetry_score"])) =>
                calculate_harmony_score(WithSymmetry(measurements, s), operations)
                    < harmony_score

\* C6 amended: the one of lower symmetry_score scores lower or equal.
C6_NonIncreasing ==
    (Scored /\ "symmetry_score" \in DOMAIN measurements) =>
        \A s \in SymmetryValues :
            RLt(s, measurements["symmetry_score"]) =>
                calculate_harmony_score(WithSymmetry(measurements, s), operations)
                    <= harmony_score

\* a record with one lower symmetry of equal score and one of lower score
C6_Witness ==
    /\ Scored
    /\ "symmetry_score" \in DOMAIN measurements
    /\ \E s \in SymmetryValues :
          /\ RLt(s, measurements["symmetry_score"])
          /\ calculate_harmony_score(WithSymmetry(measurements, s), operations)
                = harmony_score
    /\ \E s \in SymmetryValues :
          /\ RLt(s, measurements["symmetry_score"])
          /\ calculate_harmony_score(WithSymmetry(measurements, s), operations)
                < harmony_score

ScenarioA ==
    [symmetry_score |-> Dec(95), nose_to_ipd_ratio |-> Dec(75),
     jaw_asymmetry |-> Zero, chin_projection |-> Zero,
     facial_thirds |-> [upper |-> Dec(33), middle |-> Dec(33), lower |-> Dec(34)]]

\* C7: the score is the weighted sum times 100 rounded to the nearest integer,
\* clamped to [0,100]; scenario A has the weighted sum 0.9275 and scores 93.
C7_RoundedToNearest ==
    Scored =>
        /\ harmony_score =
              Clamp(RoundHalfEven(RMul(total_score(measurements, operations),
                                       FromInt(100))))
        /\ (caller = "analyze" /\ measurements = ScenarioA) =>
              /\ total_score(measurements, operations) = Dec4(9275)
              /\ harmony_score = 93

IsRhinoplasty(r) == r.text = "Comprehensive Rhinoplasty"

\* the number of operations that the strings of an output account for
RECURSIVE Contributions(_)
Contributions(recs) ==
    IF recs = << >> THEN 0
    ELSE (IF IsRhinoplasty(Head(recs)) THEN Len(Head(recs).nose_desc) ELSE 1)
         + Contributions(Tail(recs))

\* C8: for every input list, every operation produces or contributes to exactly
\* one output string, and the 'already balanced' fallback is not returned for a
\* non-empty input.
C8_NoOperationDropped ==
    Recommended =>
        /\ operations # << >> => recommendations # BalancedFallback
        /\ recommendations # BalancedFallback
              => Contributions(recommendations) = Len(operations)

\* the string (or nose description) r discloses the operation op
Discloses(r, op) ==
    CASE op.type = "symmetry"      -> r.text = "Facial Symmetry Correction"
      [] op.type = "balance"       -> r.text = "Jawline Contouring"
      [] op.type = "enhance"       -> r.text = "Chin Enhancement"
      [] op.type = "shrink_width"  -> r.text = "overall nasal width reduction"
      [] op.type = "refine_tip"    -> r.text = "nasal tip refinement and definition"
      [] op.type = "refine_bridge" -> r.text = "nasal bridge narrowing"
      [] op.type = "adjust_upper_third" ->
            r.text \in {"Upper Third Optimization: Minimal Botox brow lift effect",
                        "Upper Third Optimization: Requires surgical brow lift or forehead reduction"}
      [] op.type = "adjust_middle_third" -> r.text = "Middle Third Enhancement"
      [] op.type = "adjust_lower_third"  -> r.text = "Lower Third Optimization"
      [] OTHER -> FALSE

\* C9: the recommendations of a planned list hold exactly one string per
\* non-nose operation plus one merged rhinoplasty string with one description
\* per nose operation; the empty list yields exactly the two fixed lines.
C9_PlanFullyDisclosed ==
    Recommended =>
        /\ operations = << >> => recommendations = BalancedFallback
        /\ caller = "analyze" =>
              LET nose   == NoseOf(operations)
                  others == NonNoseOf(operations)
                  merged == SelectSeq(recommendations, IsRhinoplasty)
                  rest   == SelectSeq(recommendations, LAMBDA r : ~IsRhinoplasty(r))
              IN  /\ Len(rest) = Len(others)
                  /\ \A i \in 1..Len(rest) : Discloses(rest[i], others[i])
                  /\ Len(merged) = (IF nose = << >> THEN 0 ELSE 1)
                  /\ nose # << >> =>
                        /\ Len(merged[1].nose_desc) = Len(nose)
                        /\ \A i \in 1..Len(nose) :
                              Discloses(merged[1].nose_desc[i], nose[i])

\* a planned list of three nose operations and at least three others
C9_Witness ==
    /\ Recommended
    /\ caller = "analyze"
    /\ Len(NoseOf(operations)) = 3
    /\ Len(NonNoseOf(operations)) >= 3
    /\ Len(recommendations) = Len(NonNoseOf(operations)) + 1

-----------------------------------------------------------------------------
(* Properties of the planner's tiers *)

NoseRatioGiven == Planned /\ "nose_to_ipd_ratio" \in DOMAIN measurements
nose_ratio     == measurements["nose_to_ipd_ratio"]

OfType(ops, t) == SelectSeq(ops, LAMBDA op : Get(op, "type", "") = t)

NoseOp(t, factor) == [region |-> "nose", type |-> t, factor |-> factor, priority |-> 2]

HalfStrengthPair == << NoseOp("refine_tip", Rat(925, 1000)),
                       NoseOp("refine_bridge", Dec(95)) >>

\* C13: for a nose ratio in the closed interval [0.85*0.75, 0.75] the plan holds
\* exactly one nose operation, refine_tip of factor 1 - 0.15*0.7, and neither
\* shrink_width nor refine_bridge.
C13_NearIdealRegime ==
    (NoseRatioGiven /\ RGe(nose_ratio, RMul(Dec(85), Dec(75)))
                    /\ RLe(nose_ratio, Dec(75)))
        => /\ NoseOf(operations) = << NoseOp("refine_tip", RSub(One, RMul(Dec(15), Dec(70)))) >>
           /\ OfType(operations, "shrink_width") = << >>
           /\ OfType(operations, "refine_bridge") = << >>

\* the lower endpoint 0.6375 in a plan that holds other operations too
C13_Witness ==
    /\ NoseRatioGiven
    /\ nose_ratio = Dec4(6375)
    /\ Len(NoseOf(operations)) = 1
    /\ NoseOf(operations)[1].type = "refine_tip"
    /\ Len(operations) >= 3

\* C14: for a nose ratio above 0.75 the plan holds shrink_width of factor
\* 1 - min(ratio/0.75 - 1, 0.30), refine_tip (0.85) exactly when that magnitude
\* exceeds 0.15 and refine_bridge (0.90) exactly when it exceeds 0.12; the ratio
\* 1.0 gives shrink_width 0.70 and both refinements.
C14_WideRegime ==
    (NoseRatioGiven /\ RGt(nose_ratio, Dec(75))) =>
        LET magnitude == RMin(RSub(RDiv(nose_ratio, Dec(75)), One), Dec(30))
            nose      == NoseOf(operations)
        IN  /\ OfType(nose, "shrink_width")
                  = << NoseOp("shrink_width", RSub(One, magnitude)) >>
            /\ OfType(nose, "refine_tip")
                  = (IF RGt(magnitude, Dec(15))
                     THEN << NoseOp("refine_tip", Dec(85)) >> ELSE << >>)
            /\ OfType(nose, "refine_bridge")
                  = (IF RGt(magnitude, Dec(12))
                     THEN << NoseOp("refine_bridge", Dec(90)) >> ELSE << >>)
            /\ Len(nose) = Len(OfType(nose, "shrink_width"))
                             + Len(OfType(nose, "refine_tip"))
                             + Len(OfType(nose, "refine_bridge"))
            /\ nose_ratio = One =>
                  nose = << NoseOp("shrink_width", Dec(70)),
                            NoseOp("refine_tip", Dec(85)),
                            NoseOp("refine_bridge", Dec(90)) >>

\* a magnitude between the two thresholds: the bridge is refined, the tip is not
C14_Witness ==
    /\ NoseRatioGiven
    /\ nose_ratio = Dec(85)
    /\ Len(NoseOf(operations)) = 2
    /\ NoseOf(operations)[1].type = "shrink_width"
    /\ NoseOf(operations)[2].type = "refine_bridge"

\* C15: exactly one of the three nose regimes fires for every record, so a plan
\* holds at most one shrink_width, one refine_tip and one refine_bridge; for a
\* ratio below 0.85*0.75 the nose operations are exactly refine_tip of factor
\* 1 - 0.15*0.5 and refine_bridge of factor 1 - 0.10*0.5, without shrink_width.
C15_RegimesExclusive ==
    Planned =>
        LET nose   == NoseOf(operations)
            wide   == Len(OfType(nose, "shrink_width")) = 1
            narrow == nose = HalfStrengthPair
            near   == nose = << NoseOp("refine_tip", Rat(895, 1000)) >>
        IN  /\ Len(OfType(operations, "shrink_width")) <= 1
            /\ Len(OfType(operations, "refine_tip")) <= 1
            /\ Len(OfType(operations, "refine_bridge")) <= 1
            /\ wide \/ narrow \/ near
            /\ ~(wide /\ narrow) /\ ~(wide /\ near) /\ ~(narrow /\ near)
            /\ "nose_to_ipd_ratio" \in DOMAIN measurements =>
                  /\ wide <=> RGt(nose_ratio, Dec(75))
                  /\ narrow <=> RLt(nose_ratio, RMul(Dec(85), Dec(75)))

\* a ratio below 0.85*0.75 planned as the half-strength pair
C15_Witness ==
    /\ NoseRatioGiven
    /\ nose_ratio = Dec(60)
    /\ NoseOf(operations) = HalfStrengthPair
    /\ Len(operations) >= 3

OfRegionType(ops, r, t) ==
    SelectSeq(ops, LAMBDA op : Get(op, "region", "") = r /\ Get(op, "type", "") = t)

\* C16: the plan holds a face/symmetry operation exactly when symmetry_score is
\* below 0.9, never more than one, and its amount is min(0.9 - symmetry_score,
\* 0.15), a value in (0, 0.15].
C16_SymmetryTier ==
    Planned =>
        LET sym == OfRegionType(operations, "face", "symmetry")
            low == /\ "symmetry_score" \in DOMAIN measurements
                   /\ RLt(measurements["symmetry_score"], Dec(90))
        IN  /\ Len(sym) <= 1
            /\ Len(sym) = 1 <=> low
            /\ low =>
                  /\ sym[1] = [region |-> "face", type |-> "symmetry",
                               amount |-> RMin(RSub(Dec(90), measurements["symmetry_score"]),
                                               Dec(15)),
                               priority |-> 1]
                  /\ RGt(sym[1].amount, Zero) /\ RLe(sym[1].amount, Dec(15))

\* a shortfall of 0.20, planned at the cap 0.15
C16_Witness ==
    /\ Planned
    /\ "symmetry_score" \in DOMAIN measurements
    /\ measurements["symmetry_score"] = Dec(70)
    /\ Len(OfRegionType(operations, "face", "symmetry")) = 1
    /\ operations[1].amount = Dec(15)

\* C17: the plan holds a jaw/balance operation exactly when jaw_asymmetry is
\* above 1.0 (none at exactly 1.0), and its mm is min(jaw_asymmetry, 2.0), a
\* value in (1.0, 2.0].
C17_JawTier ==
    Planned =>
        LET jaw  == OfRegionType(operations, "jaw", "balance")
            high == /\ "jaw_asymmetry" \in DOMAIN measurements
                    /\ RGt(measurements["jaw_asymmetry"], One)
        IN  /\ Len(jaw) = (IF high THEN 1 ELSE 0)
            /\ high =>
                  /\ jaw[1] = [region |-> "jaw", type |-> "balance",
                               mm |-> RMin(measurements["jaw_asymmetry"], FromInt(2)),
                               priority |-> 3]
                  /\ RGt(jaw[1].mm, One) /\ RLe(jaw[1].mm, FromInt(2))

\* an asymmetry of 3 mm, planned at the cap 2.0
C17_Witness ==
    /\ Planned
    /\ "jaw_asymmetry" \in DOMAIN measurements
    /\ measurements["jaw_asymmetry"] = FromInt(3)
    /\ Len(OfRegionType(operations, "jaw", "balance")) = 1
    /\ OfRegionType(operations, "jaw", "balance")[1].mm = FromInt(2)

\* C18: the plan holds a chin/enhance operation exactly when
\* 0 < chin_projection < 20 (none for 0, a negative value, 20 or more, or a
\* missing field), and its amount is 0.15 whatever the projection.
C18_ChinTier ==
    Planned =>
        LET chin == OfRegionType(operations, "chin", "enhance")
            low  == /\ "chin_projection" \in DOMAIN measurements
                    /\ RGt(measurements["chin_projection"], Zero)
                    /\ RLt(measurements["chin_projection"], FromInt(20))
        IN  chin = (IF low
                    THEN << [region |-> "chin", type |-> "enhance",
                             amount |-> Dec(15), priority |-> 4] >>
                    ELSE << >>)

\* a projection of 10, planned as a chin enhancement of 0.15
C18_Witness ==
    /\ Planned
    /\ "chin_projection" \in DOMAIN measurements
    /\ measurements["chin_projection"] = FromInt(10)
    /\ Len(OfRegionType(operations, "chin", "enhance")) = 1
    /\ OfRegionType(operations, "chin", "enhance")[1].amount = Dec(15)

\* what the claim expects of one third: one operation carrying the measured
\* value and the ideal when they differ by more than 0.05, none otherwise
ExpectedThird(thirds, third_type, third_name, ideal) ==
    IF /\ third_name \in DOMAIN thirds
       /\ RGt(RAbs(RSub(thirds[third_name], ideal)), Dec(5))
    THEN << [region |-> "face", type |-> third_type,
             current |-> thirds[third_name], target |-> ideal, priority |-> 5] >>
    ELSE << >>

\* C19: for each third independently, the plan holds face/adjust_<third>_third
\* exactly when |current - ideal| > 0.05 (ideals 0.33, 0.33, 0.34; none at the
\* tolerance itself), with current the measured value and target the ideal; a
\* third missing from facial_thirds, and a missing or empty facial_thirds,
\* trigger none.
C19_ThirdsTier ==
    Planned =>
        LET thirds == Get(measurements, "facial_thirds", EmptyDict)
        IN  /\ OfType(operations, "adjust_upper_third")
                  = ExpectedThird(thirds, "adjust_upper_third", "upper", Dec(33))
            /\ OfType(operations, "adjust_middle_third")
                  = ExpectedThird(thirds, "adjust_middle_third", "middle", Dec(33))
            /\ OfType(operations, "adjust_lower_third")
                  = ExpectedThird(thirds, "adjust_lower_third", "lower", Dec(34))

\* upper at the tolerance, middle missing, lower beyond it: only the lower
\* third is planned
C19_Witness ==
    /\ Planned
    /\ "facial_thirds" \in DOMAIN measurements
    /\ DOMAIN measurements["facial_thirds"] = {"upper", "lower"}
    /\ measurements["facial_thirds"]["upper"] = Dec(38)
    /\ measurements["facial_thirds"]["lower"] = Dec(28)
    /\ SelectSeq(operations, LAMBDA op : op.priority = 5)
          = << [region |-> "face", type |-> "adjust_lower_third",
                current |-> Dec(28), target |-> Dec(34), priority |-> 5] >>

-----------------------------------------------------------------------------
(* Properties of the render pass *)

\* C2: apply_operations folds the list over the buffer: n operations give
\* exactly n calls of _apply_single_operation, the i-th call gets the i-th
\* operation and the buffer the (i-1)-th call returned (the first a copy of the
\* loaded image), and the buffer saved is the one the n-th call returned.
C2_SequentialFold ==
    /\ Len(calls) = idx
    /\ \A i \in 1..Len(calls) :
          /\ calls[i].operation = operations[i]
          /\ i > 1 => calls[i].input = calls[i - 1].result
          /\ i = 1 => /\ calls[i].input # image
                      /\ calls[i].input_pixels = heap[image]
    /\ saved # << >> =>
          /\ Len(calls) = Len(operations)
          /\ saved[1].buffer = calls[Len(calls)].result
          /\ saved[1].pixels = heap[calls[Len(calls)].result]
    /\ (pc = "returned" /\ image # 0) => saved # << >>

\* a pass of two operations, the first of which warped the buffer, was saved
C2_Witness ==
    /\ pc = "returned"
    /\ saved # << >>
    /\ Len(calls) = 2
    /\ calls[1].result # calls[1].input
    /\ calls[2].input = calls[1].result

\* the renderer's parameter lies outside its valid window
OutsideWindow(op) ==
    \/ /\ op.region = "nose" /\ op.type = "shrink_width"
       /\ ~(RGe(op.factor, Dec(70)) /\ RLt(op.factor, One))
    \/ /\ op.region = "nose" /\ op.type = "refine_tip"
       /\ ~(RGe(op.factor, Dec(80)) /\ RLt(op.factor, One))
    \/ /\ op.region = "nose" /\ op.type = "refine_bridge"
       /\ ~(RGe(op.factor, Dec(85)) /\ RLt(op.factor, One))
    \/ /\ op.region = "chin" /\ op.type = "enhance"
       /\ LET amount == Get(op, "amount", Zero)
          IN  ~(RGt(amount, Zero) /\ RLe(amount, Dec(20)))

\* C10: the nose and chin renderers return their input unchanged whenever the
\* parameter is outside the valid window ([0.70,1.0), [0.80,1.0), [0.85,1.0),
\* (0,0.2], negative amounts included).
C10_OutOfWindowIsIdentity ==
    \A i \in 1..Len(calls) :
        OutsideWindow(calls[i].operation) => calls[i].result = calls[i].input

\* calls with a parameter below, at and above the windows, and a negative amount
C10_Witness ==
    /\ Len(calls) = 2
    /\ calls[1].operation.region = "chin"
    /\ "amount" \in DOMAIN calls[1].operation
    /\ RLt(calls[1].operation.amount, Zero)
    /\ calls[1].result = calls[1].input
    /\ calls[2].operation.type = "shrink_width"
    /\ RLt(calls[2].operation.factor, Dec(70))
    /\ calls[2].result = calls[2].input

\* the jaw correction lies outside the valid window (0, 2.0]
JawOutsideWindow(op) ==
    /\ Get(op, "region", "") = "jaw" /\ Get(op, "type", "") = "balance"
    /\ LET mm == Get(op, "mm", Zero)
       IN  ~(RGt(mm, Zero) /\ RLe(mm, max_asymmetry_correction))

\* C11: _balance_jaw returns its input unchanged for every mm outside (0, 2.0]:
\* for mm = 0, for mm > 2.0 and for every negative mm, at every image width.
C11_JawOutOfWindowIsIdentity ==
    \A i \in 1..Len(calls) :
        JawOutsideWindow(calls[i].operation) => calls[i].result = calls[i].input

\* the descriptor of the warp that call c added to its input buffer
WarpOf(c) == heap[c.result][Len(heap[c.result])]

\* C12: _improve_symmetry returns its input unchanged for every amount outside
\* (0, 0.15] (0, above 0.15, negative); for an amount inside the window the
\* mirror blend strength is at most 0.4*amount and never negative.
C12_SymmetryOutOfWindowIsIdentity ==
    \A i \in 1..Len(calls) :
        LET op     == calls[i].operation
            amount == Get(op, "amount", Zero)
            inside == RGt(amount, Zero) /\ RLe(amount, max_symmetry_delta)
        IN  (Get(op, "region", "") = "face" /\ Get(op, "type", "") = "symmetry") =>
                /\ ~inside => calls[i].result = calls[i].input
                /\ (inside /\ calls[i].result # calls[i].input) =>
                      /\ RLe(WarpOf(calls[i]).blend_strength, RMul(amount, Dec(40)))
                      /\ RGe(WarpOf(calls[i]).blend_strength, Zero)

\* the (region, type) pair of the operation matches no renderer
UnknownPair(op) ==
    LET region  == Get(op, "region", "")
        op_type == Get(op, "type", "")
    IN  /\ <<region, op_type>> \notin
              { <<"nose", "shrink_width">>, <<"nose", "refine_tip">>,
                <<"nose", "refine_bridge">>, <<"jaw", "balance">>,
                <<"face", "symmetry">>, <<"chin", "enhance">>,
                <<"face", "adjust_upper_third">>, <<"face", "adjust_middle_third">>,
                <<"face", "adjust_lower_third">> }

\* C20: for an operation whose (region, type) matches no renderer,
\* _apply_single_operation returns the input buffer itself, no error ends the
\* pass, and apply_operations goes on to the remaining operations: a pass that
\* returned after loading the image called every operation and saved a result.
C20_UnknownIsPassThrough ==
    /\ \A i \in 1..Len(calls) :
          UnknownPair(calls[i].operation) =>
              /\ calls[i].result = calls[i].input
              /\ heap[calls[i].result] = calls[i].input_pixels
              /\ pc = "loop" \/ (pc = "returned" /\ saved # << >>)
              /\ pc = "returned" => Len(calls) = Len(operations)
    /\ pc \in {"apply", "loop", "returned"}

\* an unknown operation passed the buffer through and the next one warped it
C20_Witness ==
    /\ pc = "returned"
    /\ Len(calls) = 2
    /\ UnknownPair(calls[1].operation)
    /\ calls[1].result = calls[1].input
    /\ calls[2].input = calls[1].input
    /\ calls[2].result # calls[2].input
    /\ saved # << >>

\* the warp of call c left the quadrilateral where it was
SameGeometry(c) ==
    /\ c.result # c.input
    /\ "src" \in DOMAIN WarpOf(c)
    /\ WarpOf(c).src = WarpOf(c).dst

\* C25: no renderer warps onto its own source geometry: whenever the pixel
\* delta between source and destination is zero, the renderer skips the
\* transform and returns its input, for every image size and parameter.
C25_NoIdentityWarp ==
    \A i \in 1..Len(calls) : ~SameGeometry(calls[i])

\* C26: a lower-third call that passes the 0.02 and 3-pixel guards maps the
\* band [0.66h, h] to a band of height int(lower_height * (1 + 0.6*deviation)),
\* its bottom edge below the source's for a positive deviation and above it for
\* a negative one, so the destination differs from the source.
C26_LowerThirdMoves ==
    \A i \in 1..Len(calls) :
        LET op == calls[i].operation
        IN  (op.type = "adjust_lower_third" /\ calls[i].result # calls[i].input) =>
                LET deviation    == RSub(op.target, op.current)
                    lower_start  == Scaled(dims[1], Dec(66))
                    lower_height == dims[1] - lower_start
                    band         == Trunc(RMul(FromInt(lower_height),
                                               RAdd(One, RMul(Dec(60), deviation))))
                    src_bottom   == WarpOf(calls[i]).src[3][2]
                    dst_bottom   == WarpOf(calls[i]).dst[3][2]
                IN  /\ dst_bottom = FromInt(lower_start + band)
                    /\ RGt(deviation, Zero) => RGt(dst_bottom, src_bottom)
                    /\ RLt(deviation, Zero) => RLt(dst_bottom, src_bottom)
                    /\ WarpOf(calls[i]).dst # WarpOf(calls[i]).src

\* C28: no renderer modifies the buffer it receives: every buffer handed to a
\* renderer still holds the pixels it had when handed over, and the loaded
\* image is unchanged when the pass ends.
C28_InputsUntouched ==
    /\ \A i \in 1..Len(calls) : heap[calls[i].input] = calls[i].input_pixels
    /\ image # 0 => heap[image] = << >>

\* a finished pass of two warps: the loaded image and the buffer between the
\* two warps are as they were
C28_Witness ==
    /\ pc = "returned"
    /\ Len(calls) = 2
    /\ calls[1].result # calls[1].input
    /\ calls[2].result # calls[2].input
    /\ heap[image] = << >>
    /\ Len(heap[calls[2].input]) = 1
    /\ Len(heap[saved[1].buffer]) = 2

-----------------------------------------------------------------------------
(* Properties of the recommendation text *)

\* the operations outside the nose group that get a sentence of their own
SentencedOf(ops) == SelectSeq(ops, LAMBDA op : OtherRecommendation(op) # << >>)

\* C21: whenever the input of get_readable_recommendations holds at least one
\* nose operation, the output holds exactly one 'Comprehensive Rhinoplasty'
\* string, that string is the first element wherever the nose operations stand
\* in the input, its descriptions follow the input order of the nose
\* operations, and the other strings keep input order.
C21_RhinoplastyFirst ==
    (Recommended /\ NoseOf(operations) # << >>) =>
        LET nose   == NoseOf(operations)
            others == SentencedOf(operations)
            rest   == Tail(recommendations)
        IN  /\ Len(SelectSeq(recommendations, IsRhinoplasty)) = 1
            /\ IsRhinoplasty(recommendations[1])
            /\ Len(recommendations[1].nose_desc) = Len(nose)
            /\ \A i \in 1..Len(nose) :
                  Discloses(recommendations[1].nose_desc[i], nose[i])
            /\ Len(rest) = Len(others)
            /\ \A i \in 1..Len(rest) : Discloses(rest[i], others[i])

\* C22: planner and scorer treat a missing symmetry_score alike: the plan holds
\* no face/symmetry operation, and the score equals the score of the same
\* record with symmetry_score set to the value the planner assumed (1.0).
C22_MissingKeyConsistent ==
    (Scored /\ caller = "analyze" /\ "symmetry_score" \notin DOMAIN measurements) =>
        /\ OfRegionType(operations, "face", "symmetry") = << >>
        /\ harmony_score =
              calculate_harmony_score(("symmetry_score" :> One) @@ measurements,
                                      operations)

\* the step function of the claim
StepScore(n) ==
    IF n = 0 THEN One
    ELSE IF n = 1 THEN Dec(85)
    ELSE IF n = 2 THEN Dec(70)
    ELSE RMax(Dec(50), RSub(One, RMul(FromInt(n - 2), Dec(10))))

\* C27: the enhancement-potential sub-score is the step function 0 -> 1.0,
\* 1 -> 0.85, 2 -> 0.70, n > 2 -> max(0.5, 1.0 - (n-2)*0.1), and it never
\* increases with the number of operations: a list scores at most what every
\* shorter list scores.
C27_PotentialNonIncreasing ==
    Scored =>
        LET n == Len(operations)
        IN  /\ operations_score(n) = StepScore(n)
            /\ \A k \in 0..n : RGe(operations_score(k), operations_score(n))

\* the parameter of a planned operation lies inside its renderer's window
InsideWindow(op) ==
    CASE op.region = "nose" /\ op.type = "shrink_width" ->
            RGe(op.factor, Dec(70)) /\ RLt(op.factor, One)
      [] op.region = "nose" /\ op.type = "refine_tip" ->
            RGe(op.factor, Dec(80)) /\ RLt(op.factor, One)
      [] op.region = "nose" /\ op.type = "refine_bridge" ->
            RGe(op.factor, Dec(85)) /\ RLt(op.factor, One)
      [] op.region = "jaw" /\ op.type = "balance" ->
            RGt(op.mm, Zero) /\ RLe(op.mm, FromInt(2))
      [] op.region = "face" /\ op.type = "symmetry" ->
            RGt(op.amount, Zero) /\ RLe(op.amount, Dec(15))
      [] op.region = "chin" /\ op.type = "enhance" ->
            RGt(op.amount, Zero) /\ RLe(op.amount, Dec(20))
      [] OTHER -> TRUE

\* the window guard of the renderer the operation is dispatched to rejects it
RejectedByGuard(op) ==
    CASE op.region = "nose" /\ op.type = "shrink_width"  -> NoseFactorOutOfRange(op.factor)
      [] op.region = "nose" /\ op.type = "refine_tip"    -> TipFactorOutOfRange(op.factor)
      [] op.region = "nose" /\ op.type = "refine_bridge" -> BridgeFactorOutOfRange(op.factor)
      [] op.region = "jaw" /\ op.type = "balance"        -> JawCorrectionOutOfRange(op.mm)
      [] op.region = "face" /\ op.type = "symmetry"      -> SymmetryAmountOutOfRange(op.amount)
      [] op.region = "chin" /\ op.type = "enhance"       -> ChinAmountOutOfRange(op.amount)
      [] OTHER -> FALSE

\* C29: every nose, jaw, chin and symmetry operation of a plan carries a
\* parameter inside the window of its renderer (shrink_width [0.70,1.0),
\* refine_tip [0.80,1.0), refine_bridge [0.85,1.0), jaw (0,2.0], symmetry
\* (0,0.15], chin (0,0.2]), so no renderer's window guard rejects it.
C29_PlannedInsideWindows ==
    Planned =>
        \A i \in 1..Len(operations) :
            /\ InsideWindow(operations[i])
            /\ ~RejectedByGuard(operations[i])

\* a plan at the caps: shrink_width at the floor 0.70, jaw at 2.0, symmetry at 0.15
C29_Witness ==
    /\ Planned
    /\ \E i \in 1..Len(operations) :
          operations[i].type = "shrink_width" /\ operations[i].factor = Dec(70)
    /\ \E i \in 1..Len(operations) :
          operations[i].type = "balance" /\ operations[i].mm = FromInt(2)
    /\ \E i \in 1..Len(operations) :
          operations[i].type = "symmetry" /\ operations[i].amount = Dec(15)
    /\ \E i \in 1..Len(operations) : operations[i].type = "enhance"

UpperOf(ops) == OfType(ops, "adjust_upper_third")

\* C30: every planned face/adjust_upper_third has |target - current| > 0.05,
\* above the 0.02 Botox limit, so the renderer returns the image unchanged for
\* it and the recommendations carry the 'Requires surgical brow lift' caption,
\* never the 'Minimal Botox brow lift' caption.
C30_UpperThirdIsSurgical ==
    Planned =>
        /\ \A i \in 1..Len(UpperOf(operations)) :
              LET op == UpperOf(operations)[i]
              IN  /\ RGt(RAbs(RSub(op.target, op.current)), Dec(5))
                  /\ \A d \in ImageSizes :
                        apply_single_operation(<< >>, d[1], d[2], op) = Unchanged
        /\ Recommended =>
              /\ \A j \in 1..Len(recommendations) :
                    recommendations[j].text
                        # "Upper Third Optimization: Minimal Botox brow lift effect"
              /\ Len(SelectSeq(recommendations, LAMBDA r : r.text =
                        "Upper Third Optimization: Requires surgical brow lift or forehead reduction"))
                    = Len(UpperOf(operations))

\* a plan with an upper-third operation, disclosed with the surgical caption
C30_Witness ==
    /\ Planned
    /\ Recommended
    /\ Len(UpperOf(operations)) = 1
    /\ UpperOf(operations)[1].current = Dec(27)
    /\ \E j \in 1..Len(recommendations) :
          recommendations[j].text =
              "Upper Third Optimization: Requires surgical brow lift or forehead reduction"

-----------------------------------------------------------------------------
(* Properties of the /analyze handler *)

Responded(r) == requests[r].pc = "responded"

\* C23: requests in flight share no mutable state: a request analyzes only its
\* own upload, and the before/after files named in its response exist and hold
\* content of its own upload, under every interleaving, uploads of the same
\* file name included.
C23_RequestsIsolated ==
    \A r \in DOMAIN requests :
        /\ requests[r].analyzed \in {0, r}
        /\ requests[r].status = 200 =>
              /\ requests[r].before_url \in DOMAIN uploads
              /\ uploads[requests[r].before_url].upload = r
              /\ requests[r].after_url # None =>
                    /\ requests[r].after_url \in DOMAIN uploads
                    /\ uploads[requests[r].after_url].upload = r

\* C24: the handler answers 400 'File must be an image' for a content type that
\* does not start with 'image/', and 400 'No face detected in image' when the
\* analyzer returns no landmarks, both before plan_changes runs; 500 is
\* answered only for unexpected internal failures.
C24_ClientErrorsAre400 ==
    \A r \in DOMAIN requests :
        Responded(r) =>
            /\ ~IsImageType(requests[r].content_type) =>
                  /\ requests[r].status = 400
                  /\ requests[r].detail = "File must be an image"
                  /\ ~requests[r].planned
            /\ requests[r].landmarks = None =>
                  /\ requests[r].status = 400
                  /\ requests[r].detail = "No face detected in image"
                  /\ ~requests[r].planned
            /\ requests[r].status = 500 =>
                  /\ IsImageType(requests[r].content_type)
                  /\ requests[r].landmarks # None

====
